---- MODULE Spec2Model ----
(***************************************************************************)
(* Model of backend/scrape.py: the incremental mirror of the mod catalog.  *)
(* One process (a run of main()) at a time works against three pieces of   *)
(* durable state: the sqlite store (mods_raw, mod_tags, the view mods),    *)
(* the partial-index file TMP_FILE and the final index MOD_LIST_FILE.      *)
(* The remote API and the cookie refresh script are the environment.       *)
(*                                                                         *)
(* The connection is opened with isolation_level=None: every INSERT is     *)
(* durable on its own, so a step of the model is one HTTP attempt or one   *)
(* INSERT, and the process can be terminated between any two steps.        *)
(* A row of mods_raw is represented by rowid, modId and lastUpdate, the    *)
(* columns the program itself reads back; lastUpdate strings are tokens    *)
(* that are only compared for equality.  Locals that are not read again    *)
(* (the loop state of a fetch operation that has returned, the locals of   *)
(* the index build once the entry loop starts) leave the state.            *)
(***************************************************************************)
EXTENDS Integers, Sequences, FiniteSets, TLC

\* ------------------------------------------------------------- constants
PAGE_SIZE == 1000
RETRIES == 3

\* ---------------------------------------------------------------- bounds
\* mod ids of the remote catalog are 1..MaxId
MaxId == 2
\* lastUpdate strings are the tokens 1..MaxStamp, compared by equality only
MaxStamp == 2
\* the server returns at most MaxIndexLen index entries over one index build
MaxIndexLen == 2
\* number of times main() is started
MaxRuns == 2

Ids == 1..MaxId
Stamps == 1..MaxStamp
\* totalCount values the server answers with: around the page boundaries
TotalCounts == {0, 1, PAGE_SIZE, PAGE_SIZE + 1, 2 * PAGE_SIZE + 500}
\* a file: whether it exists, and the index it holds
NoFile == [exists |-> FALSE, content |-> <<>>]
File(content) == [exists |-> TRUE, content |-> content]
NoDetails == [modId |-> 0, lastUpdate |-> 0, modTagIds |-> <<>>]
NoErr == [kind |-> "none", arg |-> 0]
NoCheck == [modId |-> 0, lastUpdate |-> 0, result |-> TRUE]
Stopped == {"idle", "done", "fatal", "killed"}

VARIABLES
    \* environment
    remote,         \* remote catalog: mod id -> its current lastUpdate
    COOKIES,        \* "valid" / "invalid": whether the server accepts them
    \* durable state
    mods_raw,       \* table mods_raw in insertion order: [rowid, modId, lastUpdate]
    mod_tags,       \* table mod_tags in insertion order: [modRowId, tag]
    tmp_file,       \* TMP_FILE: NoFile or the saved index
    mod_list_file,  \* MOD_LIST_FILE: NoFile or the last completed index
    \* the running process
    pc,             \* "idle","count","page","index_ready","iter","details","add","tags",
                    \* "done","fatal","killed"
    mod_list,       \* main: mod_list
    total_count,    \* main: total_count
    pages_count,    \* main: pages_count
    page_i,         \* main: the page loop variable i
    pos,            \* main: position of the entry loop in mod_list (1-based)
    attempt,        \* the retry loop variable of the fetch operation in progress
    reqs,           \* HTTP requests issued by the fetch operation in progress
    n401,           \* 401 responses received by the fetch operation in progress
    lastSleep,      \* seconds the last attempt slept (0: it did not sleep)
    lastDump,       \* index of the diagnostic dump the last attempt wrote (0: none)
    nrefresh,       \* update_cookies() calls of the fetch operation in progress
    lastOutcome,    \* how the last attempt ended: "none","401","refresh_failed","null","err"
    details,        \* main: details (the record handed to Database.add)
    row_id,         \* Database.add: row_id
    tag_k,          \* Database.add: number of tag rows executemany has inserted
    err,            \* the exception that terminated the process
    \* observation of the run (history)
    runs,           \* number of processes started so far
    resumed,        \* this run found TMP_FILE at start
    countCalls,     \* fetch_total_count calls of this run
    pageCalls,      \* page indices fetch_page was called with in this run, in order
    pagesGot,       \* the pages fetch_page returned in this run, in order
    lastCheck,      \* the last should_update call: its arguments and result
    processed       \* index entries <<id, lastUpdate>> whose details were fetched and appended

envVars == <<remote, COOKIES>>
diskVars == <<mods_raw, mod_tags, tmp_file, mod_list_file>>
mainVars == <<mod_list, total_count, pages_count, page_i, pos, details, row_id, tag_k>>
opVars == <<attempt, reqs, n401, lastSleep, lastDump, nrefresh, lastOutcome>>
histVars == <<runs, resumed, countCalls, pageCalls, pagesGot, lastCheck, processed>>
vars == <<envVars, diskVars, pc, mainVars, opVars, err, histVars>>

\* --------------------------------------------------------------- helpers
Max(S) == CHOOSE x \in S : \A y \in S : y <= x

\* sequences over S of length at most n
SeqUpTo(S, n) == UNION {[1..m -> S] : m \in 0..n}

\* The catalog's tag list of a mod (modTagIds of its detail record).
ModTagIds(id) == IF id = 1 THEN <<>> ELSE [j \in 1..id |-> j]

\* What the server can answer to a Find request: entries of the current catalog.
RemoteEntry(id) == [modId |-> id, lastUpdate |-> remote[id]]
RemotePages(room) == SeqUpTo({RemoteEntry(id) : id \in Ids}, room)

\* What the server answers to a Detail request.
RemoteDetails(id) == [modId |-> id, lastUpdate |-> remote[id], modTagIds |-> ModTagIds(id)]

\* ------------------------------------------------------------- Database
\* should_update: the rows the SELECT yields, and whether fetchone() is None
Matching(mod_id, last_update) ==
    SelectSeq(mods_raw, LAMBDA r : r.modId = mod_id /\ r.lastUpdate = last_update)

\* a should_update whose WHERE clause forgets the lastUpdate column
ShouldUpdate_ModIdOnly(mod_id, last_update) ==
    SelectSeq(mods_raw, LAMBDA r : r.modId = mod_id) = <<>>

\* a should_update whose test is inverted: fetchone() is not None
ShouldUpdate_Inverted(mod_id, last_update) == Matching(mod_id, last_update) # <<>>

ShouldUpdate(mod_id, last_update) == Matching(mod_id, last_update) = <<>>

\* the rowid sqlite assigns to an INSERT into a table without AUTOINCREMENT
NextRowId(rows) ==
    IF rows = <<>> THEN 1 ELSE Max({rows[j].rowid : j \in 1..Len(rows)}) + 1

\* an add that replaces the mod's earlier rows (INSERT OR REPLACE keyed by modId)
InsertRow_Replace(rows, mod_json) ==
    Append(SelectSeq(rows, LAMBDA r : r.modId # mod_json.modId),
           [rowid |-> NextRowId(rows),
            modId |-> mod_json.modId,
            lastUpdate |-> mod_json.lastUpdate])

\* INSERT INTO mods_raw of Database.add
InsertRow(rows, mod_json) ==
    Append(rows, [rowid |-> NextRowId(rows),
                  modId |-> mod_json.modId,
                  lastUpdate |-> mod_json.lastUpdate])

\* a view that selects MIN(rowid) per modId
MaxRowIds_Min(rows) ==
    LET groups == {rows[j].modId : j \in 1..Len(rows)}
    IN  {-Max({-rows[j].rowid : j \in {n \in 1..Len(rows) : rows[n].modId = g}}) : g \in groups}

\* SELECT MAX(rowid) FROM mods_raw GROUP BY modId
MaxRowIds(rows) ==
    LET groups == {rows[j].modId : j \in 1..Len(rows)}
    IN  {Max({rows[j].rowid : j \in {n \in 1..Len(rows) : rows[n].modId = g}}) : g \in groups}

\* the view mods
ModsView(rows) == SelectSeq(rows, LAMBDA r : r.rowid \in MaxRowIds(rows))

\* ------------------------------------------------------------------ main
\* a page count that always adds a page: total_count // PAGE_SIZE + 1
PagesCount_NoMinusOne(total) == total \div PAGE_SIZE + 1

\* pages_count = (total_count - 1) // PAGE_SIZE + 1
PagesCount(total) == (total - 1) \div PAGE_SIZE + 1

\* a loop over range(1, RETRIES * 10 + 1)
CountAttempts_OneMore == RETRIES * 10

\* range(1, RETRIES * 10): the last value of i in fetch_total_count
CountAttempts == RETRIES * 10 - 1

\* a loop over range(RETRIES + 1)
DetailsAttempts_OneMore == RETRIES + 1

\* range(RETRIES): the number of iterations in fetch_page and fetch_details
PageAttempts == RETRIES
DetailsAttempts == RETRIES

\* a main() that never looks for TMP_FILE
ResumeFromTmp_Never == FALSE

\* TMP_FILE.is_file()
ResumeFromTmp == tmp_file.exists

Init ==
    /\ remote \in [Ids -> Stamps]
    /\ COOKIES = "valid"
    /\ mods_raw = <<>>
    /\ mod_tags = <<>>
    /\ tmp_file = NoFile
    /\ mod_list_file = NoFile
    /\ pc = "idle"
    /\ mod_list = <<>>
    /\ total_count = 0
    /\ pages_count = 0
    /\ page_i = 0
    /\ pos = 0
    /\ details = NoDetails
    /\ row_id = 0
    /\ tag_k = 0
    /\ attempt = 0
    /\ reqs = 0
    /\ n401 = 0
    /\ lastSleep = 0
    /\ lastDump = 0
    /\ nrefresh = 0
    /\ lastOutcome = "none"
    /\ err = NoErr
    /\ runs = 0
    /\ resumed = FALSE
    /\ countCalls = 0
    /\ pageCalls = <<>>
    /\ pagesGot = <<>>
    /\ lastCheck = NoCheck
    /\ processed = {}

\* a fetch operation is called: its loop and counters start
CallFetch ==
    /\ attempt' = 1
    /\ reqs' = 0
    /\ n401' = 0
    /\ lastSleep' = 0
    /\ lastDump' = 0
    /\ nrefresh' = 0
    /\ lastOutcome' = "none"

\* no fetch operation is in progress: its loop variable and counters are gone
NoFetch ==
    /\ attempt' = 0
    /\ reqs' = 0
    /\ n401' = 0
    /\ lastSleep' = 0
    /\ lastDump' = 0
    /\ nrefresh' = 0
    /\ lastOutcome' = "none"

\* main() up to the first network request, or to the entry loop on a resume
StartRun ==
    /\ pc \in Stopped
    /\ runs < MaxRuns
    /\ runs' = runs + 1
    /\ err' = NoErr
    /\ total_count' = 0
    /\ pages_count' = 0
    /\ page_i' = 0
    /\ details' = NoDetails
    /\ row_id' = 0
    /\ tag_k' = 0
    /\ pageCalls' = <<>>
    /\ pagesGot' = <<>>
    /\ lastCheck' = NoCheck
    /\ resumed' = tmp_file.exists
    /\ IF ResumeFromTmp
         THEN /\ mod_list' = tmp_file.content
              /\ countCalls' = 0
              /\ pos' = 1
              /\ pc' = "iter"
              /\ NoFetch
         ELSE /\ mod_list' = <<>>
              /\ countCalls' = 1
              /\ pos' = 0
              /\ pc' = "count"
              /\ CallFetch
    /\ UNCHANGED <<envVars, diskVars, processed>>

\* an exception leaves main(): the process ends
Raise(kind, arg) ==
    /\ pc' = "fatal"
    /\ err' = [kind |-> kind, arg |-> arg]

\* ----------------------------------------------------- fetch_total_count
\* the for loop of fetch_total_count moves on, or is exhausted
CountLoopNext ==
    IF attempt < CountAttempts
      THEN /\ attempt' = attempt + 1
           /\ UNCHANGED <<pc, err>>
      ELSE /\ Raise("count", 0)
           /\ UNCHANGED attempt

\* fetch_total_count returns total_count; main lines 89-95 up to the first
\* fetch_page call, or to the write of TMP_FILE when there is no page
FetchTotalCountOk ==
    /\ pc = "count"
    /\ COOKIES = "valid"
    /\ \E total \in TotalCounts :
         /\ total_count' = total
         /\ pages_count' = PagesCount(total)
    /\ IF pages_count' >= 1
         THEN /\ page_i' = 1
              /\ pageCalls' = Append(pageCalls, 1)
              /\ pc' = "page"
              /\ CallFetch
              /\ UNCHANGED tmp_file
         ELSE /\ tmp_file' = File(mod_list)
              /\ pc' = "index_ready"
              /\ NoFetch
              /\ UNCHANGED <<page_i, pageCalls>>
    /\ UNCHANGED <<envVars, mods_raw, mod_tags, mod_list_file, mod_list, pos, details,
                   row_id, tag_k, err, runs, resumed, countCalls, pagesGot, lastCheck,
                   processed>>

\* a fetch_total_count whose 401 branch retries without using up a loop iteration
FetchTotalCount401_FreeRetry ==
    /\ pc = "count"
    /\ COOKIES = "invalid"
    /\ reqs' = reqs + 1
    /\ n401' = n401 + 1
    /\ nrefresh' = nrefresh + 1
    /\ lastOutcome' = "401"
    /\ lastSleep' = 0
    /\ lastDump' = 0
    /\ \E c \in {"valid", "invalid"} : COOKIES' = c
    /\ UNCHANGED <<remote, diskVars, pc, mainVars, attempt, err, histVars>>

FetchTotalCount401 ==
    /\ pc = "count"
    /\ COOKIES = "invalid"
    /\ reqs' = reqs + 1
    /\ n401' = n401 + 1
    /\ nrefresh' = nrefresh + 1
    /\ lastOutcome' = "401"
    /\ lastSleep' = 0
    /\ lastDump' = 0
    /\ \E c \in {"valid", "invalid"} : COOKIES' = c
    /\ CountLoopNext
    /\ UNCHANGED <<remote, diskVars, mainVars, histVars>>

FetchTotalCount401RefreshFails ==
    /\ pc = "count"
    /\ COOKIES = "invalid"
    /\ reqs' = reqs + 1
    /\ n401' = n401 + 1
    /\ nrefresh' = nrefresh + 1
    /\ lastOutcome' = "refresh_failed"
    /\ lastSleep' = 0
    /\ lastDump' = 0
    /\ Raise("refresh", 0)
    /\ UNCHANGED <<envVars, diskVars, mainVars, attempt, histVars>>

FetchTotalCountNull ==
    /\ pc = "count"
    /\ COOKIES = "valid"
    /\ reqs' = reqs + 1
    /\ lastOutcome' = "null"
    /\ lastDump' = attempt
    /\ lastSleep' = 5 * attempt
    /\ CountLoopNext
    /\ UNCHANGED <<envVars, diskVars, mainVars, n401, nrefresh, histVars>>

\* a fetch_total_count whose except branch sleeps 5 seconds whatever the attempt
FetchTotalCountErr_FixedSleep ==
    /\ pc = "count"
    /\ reqs' = reqs + 1
    /\ lastOutcome' = "err"
    /\ lastDump' = 0
    /\ lastSleep' = 5
    /\ CountLoopNext
    /\ UNCHANGED <<envVars, diskVars, mainVars, n401, nrefresh, histVars>>

FetchTotalCountErr ==
    /\ pc = "count"
    /\ reqs' = reqs + 1
    /\ lastOutcome' = "err"
    /\ lastDump' = 0
    /\ lastSleep' = 5 * attempt
    /\ CountLoopNext
    /\ UNCHANGED <<envVars, diskVars, mainVars, n401, nrefresh, histVars>>

\* ------------------------------------------------------------ fetch_page
\* the for loop of fetch_page moves on, or is exhausted
PageLoopNext ==
    IF attempt < PageAttempts
      THEN /\ attempt' = attempt + 1
           /\ UNCHANGED <<pc, err>>
      ELSE /\ Raise("page", page_i)
           /\ UNCHANGED attempt

\* a main() that saves the index to TMP_FILE after every page
FetchPageOk_WritesEachPage ==
    /\ pc = "page"
    /\ COOKIES = "valid"
    /\ \E page \in RemotePages(MaxIndexLen - Len(mod_list)) :
         /\ mod_list' = mod_list \o page
         /\ pagesGot' = Append(pagesGot, page)
    /\ tmp_file' = File(mod_list')
    /\ IF page_i < pages_count
         THEN /\ page_i' = page_i + 1
              /\ pageCalls' = Append(pageCalls, page_i + 1)
              /\ CallFetch
              /\ UNCHANGED pc
         ELSE /\ pc' = "index_ready"
              /\ NoFetch
              /\ UNCHANGED <<page_i, pageCalls>>
    /\ UNCHANGED <<envVars, mods_raw, mod_tags, mod_list_file, total_count, pages_count,
                   pos, details, row_id, tag_k, err, runs, resumed, countCalls, lastCheck,
                   processed>>

\* fetch_page returns rj['modList']; main extends mod_list and goes on to the
\* next page, or writes TMP_FILE after the last one
FetchPageOk ==
    /\ pc = "page"
    /\ COOKIES = "valid"
    /\ \E page \in RemotePages(MaxIndexLen - Len(mod_list)) :
         /\ mod_list' = mod_list \o page
         /\ pagesGot' = Append(pagesGot, page)
    /\ IF page_i < pages_count
         THEN /\ page_i' = page_i + 1
              /\ pageCalls' = Append(pageCalls, page_i + 1)
              /\ CallFetch
              /\ UNCHANGED <<tmp_file, pc>>
         ELSE /\ tmp_file' = File(mod_list')
              /\ pc' = "index_ready"
              /\ NoFetch
              /\ UNCHANGED <<page_i, pageCalls>>
    /\ UNCHANGED <<envVars, mods_raw, mod_tags, mod_list_file, total_count, pages_count,
                   pos, details, row_id, tag_k, err, runs, resumed, countCalls, lastCheck,
                   processed>>

\* a fetch_page whose 401 branch retries without using up a loop iteration
FetchPage401_FreeRetry ==
    /\ pc = "page"
    /\ COOKIES = "invalid"
    /\ reqs' = reqs + 1
    /\ n401' = n401 + 1
    /\ nrefresh' = nrefresh + 1
    /\ lastOutcome' = "401"
    /\ lastSleep' = 0
    /\ lastDump' = 0
    /\ \E c \in {"valid", "invalid"} : COOKIES' = c
    /\ UNCHANGED <<remote, diskVars, pc, mainVars, attempt, err, histVars>>

FetchPage401 ==
    /\ pc = "page"
    /\ COOKIES = "invalid"
    /\ reqs' = reqs + 1
    /\ n401' = n401 + 1
    /\ nrefresh' = nrefresh + 1
    /\ lastOutcome' = "401"
    /\ lastSleep' = 0
    /\ lastDump' = 0
    /\ \E c \in {"valid", "invalid"} : COOKIES' = c
    /\ PageLoopNext
    /\ UNCHANGED <<remote, diskVars, mainVars, histVars>>

\* a fetch_page whose retry loop catches the failure of update_cookies() like any
\* other exception: sleep 5 and try again
FetchPage401RefreshFails_Absorbed ==
    /\ pc = "page"
    /\ COOKIES = "invalid"
    /\ reqs' = reqs + 1
    /\ n401' = n401 + 1
    /\ nrefresh' = nrefresh + 1
    /\ lastOutcome' = "refresh_failed"
    /\ lastSleep' = 5
    /\ lastDump' = 0
    /\ PageLoopNext
    /\ UNCHANGED <<envVars, diskVars, mainVars, histVars>>

FetchPage401RefreshFails ==
    /\ pc = "page"
    /\ COOKIES = "invalid"
    /\ reqs' = reqs + 1
    /\ n401' = n401 + 1
    /\ nrefresh' = nrefresh + 1
    /\ lastOutcome' = "refresh_failed"
    /\ lastSleep' = 0
    /\ lastDump' = 0
    /\ Raise("refresh", 0)
    /\ UNCHANGED <<envVars, diskVars, mainVars, attempt, histVars>>

FetchPageErr ==
    /\ pc = "page"
    /\ reqs' = reqs + 1
    /\ lastOutcome' = "err"
    /\ lastSleep' = 5
    /\ lastDump' = 0
    /\ PageLoopNext
    /\ UNCHANGED <<envVars, diskVars, mainVars, n401, nrefresh, histVars>>

\* ------------------------------------------------- main: the entry loop
\* the index is assembled and saved: main enters "for mod in mod_list". The
\* locals of the index build are not read again and leave the state.
BeginIteration ==
    /\ pc = "index_ready"
    /\ pos' = 1
    /\ pc' = "iter"
    /\ total_count' = 0
    /\ pages_count' = 0
    /\ page_i' = 0
    /\ pageCalls' = <<>>
    /\ pagesGot' = <<>>
    /\ UNCHANGED <<envVars, diskVars, mod_list, details, row_id, tag_k, opVars, err, runs,
                   resumed, countCalls, lastCheck, processed>>

\* one iteration of "for mod in mod_list" up to the fetch_details call
CheckEntry ==
    /\ pc = "iter"
    /\ pos <= Len(mod_list)
    /\ LET mod == mod_list[pos]
           su == ShouldUpdate(mod.modId, mod.lastUpdate)
       IN  /\ lastCheck' = [modId |-> mod.modId, lastUpdate |-> mod.lastUpdate, result |-> su]
           /\ IF su
                THEN /\ pc' = "details"
                     /\ CallFetch
                     /\ UNCHANGED pos
                ELSE /\ pos' = pos + 1
                     /\ UNCHANGED <<pc, opVars>>
    /\ UNCHANGED <<envVars, diskVars, mod_list, total_count, pages_count, page_i, details,
                   row_id, tag_k, err, runs, resumed, countCalls, pageCalls, pagesGot,
                   processed>>

\* a main() that copies TMP_FILE to MOD_LIST_FILE and leaves TMP_FILE in place
Rename_KeepsTmp ==
    /\ pc = "iter"
    /\ pos > Len(mod_list)
    /\ mod_list_file' = tmp_file
    /\ pc' = "done"
    /\ UNCHANGED <<envVars, mods_raw, mod_tags, tmp_file, mainVars, opVars, err, histVars>>

\* TMP_FILE.rename(MOD_LIST_FILE) after the loop
Rename ==
    /\ pc = "iter"
    /\ pos > Len(mod_list)
    /\ mod_list_file' = tmp_file
    /\ tmp_file' = NoFile
    /\ pc' = "done"
    /\ UNCHANGED <<envVars, mods_raw, mod_tags, mainVars, opVars, err, histVars>>

\* --------------------------------------------------------- fetch_details
DetailsLoopNext ==
    IF attempt < DetailsAttempts
      THEN /\ attempt' = attempt + 1
           /\ UNCHANGED <<pc, err>>
      ELSE /\ Raise("mod_id", mod_list[pos].modId)
           /\ UNCHANGED attempt

\* fetch_details returns response.json()
FetchDetailsOk ==
    /\ pc = "details"
    /\ COOKIES = "valid"
    /\ details' = RemoteDetails(mod_list[pos].modId)
    /\ pc' = "add"
    /\ NoFetch
    /\ UNCHANGED <<envVars, diskVars, mod_list, total_count, pages_count, page_i, pos,
                   row_id, tag_k, err, histVars>>

\* a fetch_details whose 401 branch retries without using up a loop iteration
FetchDetails401_FreeRetry ==
    /\ pc = "details"
    /\ COOKIES = "invalid"
    /\ reqs' = reqs + 1
    /\ n401' = n401 + 1
    /\ nrefresh' = nrefresh + 1
    /\ lastOutcome' = "401"
    /\ lastSleep' = 0
    /\ lastDump' = 0
    /\ \E c \in {"valid", "invalid"} : COOKIES' = c
    /\ UNCHANGED <<remote, diskVars, pc, mainVars, attempt, err, histVars>>

\* a fetch_details whose 401 branch retries without calling update_cookies()
FetchDetails401_NoRefresh ==
    /\ pc = "details"
    /\ COOKIES = "invalid"
    /\ reqs' = reqs + 1
    /\ n401' = n401 + 1
    /\ lastOutcome' = "401"
    /\ lastSleep' = 0
    /\ lastDump' = 0
    /\ DetailsLoopNext
    /\ UNCHANGED <<envVars, diskVars, mainVars, nrefresh, histVars>>

\* a fetch_details whose 401 branch sleeps like the other failures do
FetchDetails401_Sleeps ==
    /\ pc = "details"
    /\ COOKIES = "invalid"
    /\ reqs' = reqs + 1
    /\ n401' = n401 + 1
    /\ nrefresh' = nrefresh + 1
    /\ lastOutcome' = "401"
    /\ lastSleep' = 5
    /\ lastDump' = 0
    /\ \E c \in {"valid", "invalid"} : COOKIES' = c
    /\ DetailsLoopNext
    /\ UNCHANGED <<remote, diskVars, mainVars, histVars>>

FetchDetails401 ==
    /\ pc = "details"
    /\ COOKIES = "invalid"
    /\ reqs' = reqs + 1
    /\ n401' = n401 + 1
    /\ nrefresh' = nrefresh + 1
    /\ lastOutcome' = "401"
    /\ lastSleep' = 0
    /\ lastDump' = 0
    /\ \E c \in {"valid", "invalid"} : COOKIES' = c
    /\ DetailsLoopNext
    /\ UNCHANGED <<remote, diskVars, mainVars, histVars>>

FetchDetails401RefreshFails ==
    /\ pc = "details"
    /\ COOKIES = "invalid"
    /\ reqs' = reqs + 1
    /\ n401' = n401 + 1
    /\ nrefresh' = nrefresh + 1
    /\ lastOutcome' = "refresh_failed"
    /\ lastSleep' = 0
    /\ lastDump' = 0
    /\ Raise("refresh", 0)
    /\ UNCHANGED <<envVars, diskVars, mainVars, attempt, histVars>>

\* a fetch_details that gives up on the entry after the last attempt and lets
\* the entry loop go on
FetchDetailsErr_SkipsEntry ==
    /\ pc = "details"
    /\ IF attempt < DetailsAttempts
         THEN /\ reqs' = reqs + 1
              /\ lastOutcome' = "err"
              /\ lastSleep' = 5
              /\ lastDump' = 0
              /\ attempt' = attempt + 1
              /\ UNCHANGED <<pc, pos, n401, nrefresh>>
         ELSE /\ pos' = pos + 1
              /\ pc' = "iter"
              /\ NoFetch
    /\ UNCHANGED <<envVars, diskVars, mod_list, total_count, pages_count, page_i, details,
                   row_id, tag_k, err, histVars>>

FetchDetailsErr ==
    /\ pc = "details"
    /\ reqs' = reqs + 1
    /\ lastOutcome' = "err"
    /\ lastSleep' = 5
    /\ lastDump' = 0
    /\ DetailsLoopNext
    /\ UNCHANGED <<envVars, diskVars, mainVars, n401, nrefresh, histVars>>

\* ---------------------------------------------------------- Database.add
\* add has returned: the entry counts as processed and the loop moves on
AddReturns ==
    /\ processed' = processed \cup {<<mod_list[pos].modId, mod_list[pos].lastUpdate>>}
    /\ pos' = pos + 1
    /\ pc' = "iter"
    /\ details' = NoDetails
    /\ row_id' = 0
    /\ tag_k' = 0

\* INSERT INTO mods_raw; row_id = lastrowid (each statement commits on its own)
AddRow ==
    /\ pc = "add"
    /\ mods_raw' = InsertRow(mods_raw, details)
    /\ IF details.modTagIds = <<>>
         THEN AddReturns
         ELSE /\ pc' = "tags"
              /\ row_id' = NextRowId(mods_raw)
              /\ tag_k' = 0
              /\ UNCHANGED <<processed, pos, details>>
    /\ UNCHANGED <<envVars, mod_tags, tmp_file, mod_list_file, mod_list, total_count,
                   pages_count, page_i, opVars, err, runs, resumed, countCalls, pageCalls,
                   pagesGot, lastCheck>>

\* an executemany whose rows carry the mod's modId where the rowid belongs
AddTag_ModIdAsRow ==
    /\ pc = "tags"
    /\ mod_tags' = Append(mod_tags, [modRowId |-> details.modId,
                                     tag |-> details.modTagIds[tag_k + 1]])
    /\ IF tag_k + 1 = Len(details.modTagIds)
         THEN AddReturns
         ELSE /\ tag_k' = tag_k + 1
              /\ UNCHANGED <<processed, pos, pc, details, row_id>>
    /\ UNCHANGED <<envVars, mods_raw, tmp_file, mod_list_file, mod_list, total_count,
                   pages_count, page_i, opVars, err, runs, resumed, countCalls,
                   pageCalls, pagesGot, lastCheck>>

\* executemany: the next INSERT INTO mod_tags
AddTag ==
    /\ pc = "tags"
    /\ mod_tags' = Append(mod_tags, [modRowId |-> row_id, tag |-> details.modTagIds[tag_k + 1]])
    /\ IF tag_k + 1 = Len(details.modTagIds)
         THEN AddReturns
         ELSE /\ tag_k' = tag_k + 1
              /\ UNCHANGED <<processed, pos, pc, details, row_id>>
    /\ UNCHANGED <<envVars, mods_raw, tmp_file, mod_list_file, mod_list, total_count,
                   pages_count, page_i, opVars, err, runs, resumed, countCalls,
                   pageCalls, pagesGot, lastCheck>>

\* ----------------------------------------------------------- environment
\* the process is terminated from outside: its memory is gone, the disk stays
Kill ==
    /\ pc \notin Stopped
    /\ pc' = "killed"
    /\ mod_list' = <<>>
    /\ total_count' = 0
    /\ pages_count' = 0
    /\ page_i' = 0
    /\ pos' = 0
    /\ details' = NoDetails
    /\ row_id' = 0
    /\ tag_k' = 0
    /\ attempt' = 0
    /\ reqs' = 0
    /\ n401' = 0
    /\ lastSleep' = 0
    /\ lastDump' = 0
    /\ nrefresh' = 0
    /\ lastOutcome' = "none"
    /\ pageCalls' = <<>>
    /\ pagesGot' = <<>>
    /\ lastCheck' = NoCheck
    /\ UNCHANGED <<envVars, diskVars, err, runs, resumed, countCalls, processed>>

\* the remote catalog changes: a mod gets another lastUpdate
RemoteChange ==
    /\ \E id \in Ids, s \in Stamps :
         /\ s # remote[id]
         /\ remote' = [remote EXCEPT ![id] = s]
    /\ UNCHANGED <<COOKIES, diskVars, pc, mainVars, opVars, err, histVars>>

\* the session cookies expire
CookiesExpire ==
    /\ COOKIES = "valid"
    /\ COOKIES' = "invalid"
    /\ UNCHANGED <<remote, diskVars, pc, mainVars, opVars, err, histVars>>

Next ==
    \/ StartRun
    \/ FetchTotalCountOk
    \/ FetchTotalCount401
    \/ FetchTotalCount401RefreshFails
    \/ FetchTotalCountNull
    \/ FetchTotalCountErr
    \/ FetchPageOk
    \/ FetchPage401
    \/ FetchPage401RefreshFails
    \/ FetchPageErr
    \/ BeginIteration
    \/ CheckEntry
    \/ Rename
    \/ FetchDetailsOk
    \/ FetchDetails401
    \/ FetchDetails401RefreshFails
    \/ FetchDetailsErr
    \/ AddRow
    \/ AddTag
    \/ Kill
    \/ RemoteChange
    \/ CookiesExpire

Spec == Init /\ [][Next]_vars

\* ================================================================ claims
\* the store holds a StoredVersion row with exactly this modId and lastUpdate
StoreHolds(id, lu) ==
    \E j \in 1..Len(mods_raw) : mods_raw[j].modId = id /\ mods_raw[j].lastUpdate = lu

\* this step is one iteration of the entry loop calling should_update
IsCheckStep ==
    /\ pc = "iter"
    /\ pos <= Len(mod_list)
    /\ pc' \in {"iter", "details"}
    /\ (pc' = "details" \/ pos' = pos + 1)

\* C1: should_update(modId, lastUpdate) returns false if and only if the store
\* holds a row with exactly that modId and exactly that lastUpdate; for a modId
\* never stored, or stored with any other lastUpdate, it returns true.
C1_ShouldUpdateExactPair ==
    [][IsCheckStep =>
         /\ lastCheck'.modId = mod_list[pos].modId
         /\ lastCheck'.lastUpdate = mod_list[pos].lastUpdate
         /\ lastCheck'.result = ~StoreHolds(mod_list[pos].modId, mod_list[pos].lastUpdate)
         /\ (pc' = "details") = lastCheck'.result]_vars

\* should_update answered true for a mod that is stored with another, newer lastUpdate
\* while another call in the same store state would answer false for the stored pair
C1_Witness ==
    /\ pc = "details"
    /\ lastCheck.result
    /\ \E j \in 1..Len(mods_raw) :
         /\ mods_raw[j].modId = lastCheck.modId
         /\ mods_raw[j].lastUpdate > lastCheck.lastUpdate
         /\ ~ShouldUpdate(mods_raw[j].modId, mods_raw[j].lastUpdate)

\* C2: once main() has fetched and appended the detail record for an index entry,
\* no later processing of an entry with the same id and the same lastUpdatedAt
\* calls fetch_details (or appends) for it.
C2_NoRefetchOfProcessedEntry ==
    pc \in {"details", "add", "tags"} =>
        <<mod_list[pos].modId, mod_list[pos].lastUpdate>> \notin processed

\* C3: the store never contains two StoredVersion rows with the same
\* (itemId, lastUpdatedAt) pair.
C3_NoDuplicateVersions ==
    \A i, j \in 1..Len(mods_raw) :
        (mods_raw[i].modId = mods_raw[j].modId /\ mods_raw[i].lastUpdate = mods_raw[j].lastUpdate)
            => i = j

\* this step is a Database.add call executing its INSERT INTO mods_raw
IsAddStep == pc = "add" /\ pc' \in {"tags", "iter"}

\* C4: the store is append-only. Every add appends exactly one row whose rowid is
\* greater than every existing rowid and leaves the existing rows as they are; no
\* step of the program changes or removes a row of mods_raw or mod_tags.
C4_AppendOnly ==
    [][/\ Len(mods_raw') >= Len(mods_raw)
       /\ SubSeq(mods_raw', 1, Len(mods_raw)) = mods_raw
       /\ Len(mod_tags') >= Len(mod_tags)
       /\ SubSeq(mod_tags', 1, Len(mod_tags)) = mod_tags
       /\ (IsAddStep <=> Len(mods_raw') = Len(mods_raw) + 1)
       /\ (~IsAddStep => mods_raw' = mods_raw)
       /\ (IsAddStep =>
             /\ \A j \in 1..Len(mods_raw) : mods_raw'[Len(mods_raw')].rowid > mods_raw[j].rowid
             /\ mods_raw'[Len(mods_raw')].modId = details.modId
             /\ mods_raw'[Len(mods_raw')].lastUpdate = details.lastUpdate)]_vars

\* two adds for one itemId with distinct lastUpdatedAt values left two rows for it
C4_Witness ==
    \E i, j \in 1..Len(mods_raw) :
        /\ i < j
        /\ mods_raw[i].modId = mods_raw[j].modId
        /\ mods_raw[i].lastUpdate # mods_raw[j].lastUpdate
        /\ Cardinality({n \in 1..Len(mods_raw) : mods_raw[n].modId = mods_raw[i].modId}) = 2

\* the positions in mods_raw (insertion order) of the rows of an item
RowsOf(id) == {j \in 1..Len(mods_raw) : mods_raw[j].modId = id}

\* C5: the view mods contains exactly one row for each itemId that has a
\* StoredVersion, none for the others, and that row is the one with the maximum
\* rowid among the item's rows: the most recently appended one.
C5_LatestVersionView ==
    LET view == ModsView(mods_raw)
    IN  \A id \in Ids :
          LET inView == {j \in 1..Len(view) : view[j].modId = id}
          IN  IF RowsOf(id) = {}
                THEN inView = {}
                ELSE /\ Cardinality(inView) = 1
                     /\ \A j \in inView :
                          /\ view[j] = mods_raw[Max(RowsOf(id))]
                          /\ \A n \in RowsOf(id) : mods_raw[n].rowid <= view[j].rowid

\* an item has an older and a newer row, the most recently appended one carrying the
\* smaller lastUpdate, and another item has a row too
C5_Witness ==
    /\ \A id \in Ids : RowsOf(id) # {}
    /\ \E i, j \in 1..Len(mods_raw) :
         /\ i < j
         /\ mods_raw[i].modId = mods_raw[j].modId
         /\ mods_raw[i].lastUpdate > mods_raw[j].lastUpdate
    /\ Len(ModsView(mods_raw)) < Len(mods_raw)

\* C6: a run that finds TMP_FILE at its start loads the index from it, makes no
\* fetch_total_count call and no fetch_page call, and goes to the entry loop.
C6_ResumeSkipsIndexBuild ==
    resumed =>
        /\ countCalls = 0
        /\ pageCalls = <<>>
        /\ pagesGot = <<>>
        /\ pc \notin {"count", "page", "index_ready"}
        /\ (pc \in {"iter", "details", "add", "tags"} =>
              tmp_file.exists /\ mod_list = tmp_file.content)

\* a resumed run went through its index and stored a version
C6_Witness ==
    /\ resumed
    /\ pc = "done"
    /\ mod_list # <<>>
    /\ lastCheck.result
    /\ mods_raw # <<>>

\* the concatenation of a sequence of pages
RECURSIVE Flatten(_)
Flatten(ss) == IF ss = <<>> THEN <<>> ELSE Head(ss) \o Flatten(Tail(ss))

\* ceil(a / b) for a >= 0, b > 0
CeilDiv(a, b) == CHOOSE n \in 0..a : n * b >= a /\ (n = 0 \/ (n - 1) * b < a)

\* C7: without TMP_FILE, for the total count T the run computes
\* pages_count = ceil(T / 1000), calls fetch_page once for each page index
\* 1..pages_count in ascending order, and the index is the concatenation of the
\* returned pages in that order.
C7_PagesFetchedInOrder ==
    /\ pc = "page" =>
         /\ pages_count = CeilDiv(total_count, 1000)
         /\ page_i \in 1..pages_count
         /\ pageCalls = [j \in 1..page_i |-> j]
         /\ Len(pagesGot) = page_i - 1
         /\ mod_list = Flatten(pagesGot)
    /\ pc = "index_ready" =>
         /\ ~resumed
         /\ pages_count = CeilDiv(total_count, 1000)
         /\ pageCalls = [j \in 1..pages_count |-> j]
         /\ Len(pagesGot) = pages_count
         /\ mod_list = Flatten(pagesGot)
         /\ (total_count = 0 => pageCalls = <<>>)
         /\ (total_count = 2500 => pageCalls = <<1, 2, 3>>)
         /\ \A total \in TotalCounts \cup {999, 1999, 2000, 2001, 3000} :
              PagesCount(total) = CeilDiv(total, 1000)

\* the index of a catalog of 2500 mods was assembled from three pages
C7_Witness ==
    /\ pc = "index_ready"
    /\ total_count = 2500
    /\ Len(pagesGot) = 3
    /\ pagesGot[1] # <<>>
    /\ pagesGot[3] # <<>>

\* fetch_page has raised its max-retries error
PageRetriesExceeded == pc = "fatal" /\ err.kind = "page"

\* C8, as claimed: a 401 does not use up one of the 3 retry slots, so fetch_page
\* raises the max-retries error only after 3 non-401 failures.
C8_Claimed_401TakesNoSlot == PageRetriesExceeded => reqs - n401 = 3

\* C8, amended: a 401 followed by a successful refresh uses up one of the 3 loop
\* iterations like any other failure: every request of fetch_page takes one
\* iteration, and fetch_page raises the max-retries error after 3 failed attempts
\* of any kind, that is after 3 - k other failures when k of them were 401s.
C8_401TakesSlot ==
    /\ pc = "page" => (reqs = attempt - 1 /\ n401 <= reqs /\ attempt <= 3)
    /\ PageRetriesExceeded => (reqs = 3 /\ n401 <= 3 /\ err.arg = page_i)

\* fetch_page raised after three attempts all of which were 401s
C8_Witness == PageRetriesExceeded /\ n401 = 3 /\ reqs = 3

\* a step that issues an HTTP request
IssuesRequest ==
    \/ FetchTotalCountOk \/ FetchTotalCount401 \/ FetchTotalCount401RefreshFails
    \/ FetchTotalCountNull \/ FetchTotalCountErr
    \/ FetchPageOk \/ FetchPage401 \/ FetchPage401RefreshFails \/ FetchPageErr
    \/ FetchDetailsOk \/ FetchDetails401 \/ FetchDetails401RefreshFails \/ FetchDetailsErr

\* C9: when every attempt fails with a Transient (non-401) failure, fetch_page and
\* fetch_details each issue exactly 3 HTTP requests and then raise a fatal error
\* naming the page index, resp. the item identifier; after that error the process
\* issues no further request.
C9_TransientExhaustion ==
    /\ (pc \in {"page", "details"} /\ n401 = 0) => (reqs = attempt - 1 /\ reqs < 3)
    /\ (pc = "fatal" /\ err.kind = "page" /\ n401 = 0) => (reqs = 3 /\ err.arg = page_i)
    /\ (pc = "fatal" /\ err.kind = "mod_id" /\ n401 = 0) =>
          (reqs = 3 /\ err.arg = mod_list[pos].modId)
    /\ pc = "fatal" => ~ENABLED IssuesRequest

\* fetch_details gave up on the second mod after three Transient failures
C9_Witness ==
    /\ pc = "fatal"
    /\ err = [kind |-> "mod_id", arg |-> 2]
    /\ n401 = 0
    /\ reqs = 3
    /\ lastSleep = 5

\* C10: fetch_total_count issues at most 29 requests per call; every failed
\* attempt, whatever its kind (401, null totalCount, other exception), uses up one
\* of the 29 slots; after 29 failed attempts it raises a fatal error; an attempt
\* whose response has a totalCount returns it at once.
C10_CountRetries ==
    [][/\ pc' = "count" => (reqs' = attempt' - 1 /\ attempt' \in 1..29 /\ n401' <= reqs')
       /\ (pc = "count" /\ pc' = "fatal") =>
             /\ reqs' = reqs + 1
             /\ reqs' <= 29
             /\ err'.kind \in {"count", "refresh"}
             /\ (err'.kind = "count" => reqs' = 29)
             /\ (err'.kind = "refresh" => n401' = n401 + 1)
       /\ (pc = "count" /\ pc' = "count" /\ reqs' # reqs) =>
             (reqs' = reqs + 1 /\ attempt' = attempt + 1)
       /\ (pc = "count" /\ pc' \in {"page", "index_ready"}) =>
             /\ reqs <= 28
             /\ total_count' \in TotalCounts
             /\ countCalls' = 1]_vars

\* fetch_total_count gave up after 29 attempts that mixed 401s, null counts and
\* other failures
C10_Witness ==
    /\ pc = "fatal"
    /\ err.kind = "count"
    /\ reqs = 29
    /\ n401 >= 1
    /\ n401 < 29
    /\ lastDump = 29
    /\ lastSleep = 145

\* a fetch operation is in progress
InFetch == pc \in {"count", "page", "details"}

\* this step is a fetch operation returning its result to main()
OpReturns ==
    \/ pc = "count" /\ pc' \in {"page", "index_ready"}
    \/ pc = "page" /\ (pc' = "index_ready" \/ (pc' = "page" /\ page_i' = page_i + 1))
    \/ pc = "details" /\ pc' = "add"

\* C11: in fetch_page, fetch_total_count and fetch_details alike, the number of
\* update_cookies() calls of one operation equals the number of 401 responses it
\* received (each 401 is one request and one refresh); an operation whose first
\* response was a 401 and whose second is a success returns on that second
\* attempt, without raising, having refreshed exactly once.
C11_RefreshPer401 ==
    [][/\ pc' \in {"count", "page", "details", "fatal"} => nrefresh' = n401'
       /\ (InFetch /\ n401' = n401 + 1) => (nrefresh' = nrefresh + 1 /\ reqs' = reqs + 1)
       /\ (InFetch /\ nrefresh' = nrefresh + 1) => n401' = n401 + 1
       /\ OpReturns => (nrefresh = n401 /\ COOKIES = "valid" /\ err' = NoErr)
       /\ (OpReturns /\ reqs = 1 /\ n401 = 1) => (nrefresh = 1 /\ attempt = 2)]_vars

\* every operation is one 401 and one refresh into its call, and the success
\* that lets it return is the next response
C11_Witness ==
    /\ pc = "details"
    /\ reqs = 1
    /\ n401 = 1
    /\ nrefresh = 1
    /\ lastOutcome = "401"
    /\ ENABLED FetchDetailsOk

\* fetch_details raised its own fatal error
DetailsRetriesExceeded == pc = "fatal" /\ err.kind = "mod_id"

\* C12: when fetch_details raises during the entry loop the run ends there: the
\* failing last attempt goes to the fatal state, nothing on disk changes from
\* then on (no later entry is checked, fetched or appended; TMP_FILE is not
\* renamed, still exists and holds the index; the rows appended before stay),
\* and the next run resumes from TMP_FILE without rebuilding the index.
C12_DetailsFailureAborts ==
    [][/\ (pc = "details" /\ attempt = RETRIES /\ pc' \notin {"details", "add", "killed"}) =>
             /\ pc' = "fatal"
             /\ reqs' = reqs + 1
             /\ err'.kind \in {"mod_id", "refresh"}
       /\ (pc = "details" /\ pc' = "fatal") =>
             /\ UNCHANGED <<diskVars, pos, processed, mod_list>>
             /\ tmp_file = File(mod_list)
       /\ (DetailsRetriesExceeded /\ runs' = runs) =>
             /\ UNCHANGED <<diskVars, pos, processed, lastCheck, reqs>>
             /\ pc' = "fatal"
       /\ (DetailsRetriesExceeded /\ runs' = runs + 1) =>
             /\ UNCHANGED diskVars
             /\ tmp_file.exists
             /\ resumed'
             /\ pc' = "iter"
             /\ countCalls' = 0
             /\ mod_list' = mod_list]_vars

\* fetch_details gave up on the second entry after the first entry's version
\* had been appended
C12_Witness ==
    /\ DetailsRetriesExceeded
    /\ pos = 2
    /\ <<mod_list[1].modId, mod_list[1].lastUpdate>> \in processed
    /\ mods_raw # <<>>
    /\ tmp_file = File(mod_list)
    /\ mod_list_file = NoFile

\* every entry of the index has been through the loop body: it was skipped
\* because the store held its pair, or its details were fetched and appended
AllEntriesProcessed ==
    \A k \in 1..Len(mod_list) :
        \/ StoreHolds(mod_list[k].modId, mod_list[k].lastUpdate)
        \/ <<mod_list[k].modId, mod_list[k].lastUpdate>> \in processed

\* C13: TMP_FILE is renamed to MOD_LIST_FILE only by a run whose entry loop went
\* through every entry without a fatal error; after the rename TMP_FILE does not
\* exist, so the next run starts fresh: it calls fetch_total_count and rebuilds
\* the index.
C13_RenameOnlyAfterAllEntries ==
    [][/\ (mod_list_file' # mod_list_file \/ (tmp_file.exists /\ ~tmp_file'.exists)) =>
             /\ pc = "iter"
             /\ pos = Len(mod_list) + 1
             /\ err = NoErr
             /\ AllEntriesProcessed
             /\ tmp_file = File(mod_list)
             /\ mod_list_file' = tmp_file
             /\ tmp_file' = NoFile
             /\ pc' = "done"
       /\ pc' = "done" => (~tmp_file'.exists /\ mod_list_file'.exists)
       /\ (pc = "done" /\ runs' = runs + 1) =>
             /\ ~resumed'
             /\ pc' = "count"
             /\ countCalls' = 1
             /\ mod_list' = <<>>]_vars

\* the run after a completed one is counting the catalog again
C13_Witness ==
    /\ pc = "count"
    /\ runs = 2
    /\ ~resumed
    /\ countCalls = 1
    /\ mod_list_file.exists
    /\ mod_list_file.content # <<>>
    /\ ~tmp_file.exists

\* C14: when the refresh procedure fails inside update_cookies(), the failure
\* leaves the fetch operation and ends the run: the retry loop does not go on
\* (no sleep, no further attempt), COOKIES is what it was, and no HTTP request
\* follows in that run.
C14_RefreshFailureIsFatal ==
    [][/\ lastOutcome' = "refresh_failed" => (pc' = "fatal" /\ err'.kind = "refresh")
       /\ (lastOutcome # "refresh_failed" /\ lastOutcome' = "refresh_failed") =>
             /\ InFetch
             /\ COOKIES = "invalid"
             /\ COOKIES' = COOKIES
             /\ attempt' = attempt
             /\ reqs' = reqs + 1
             /\ nrefresh' = nrefresh + 1
             /\ lastSleep' = 0
       /\ (lastOutcome = "refresh_failed" /\ runs' = runs) =>
             UNCHANGED <<COOKIES, diskVars, reqs, nrefresh, attempt, pc>>]_vars

\* the refresh failed on the first attempt of a fetch_details call: two loop
\* iterations were left and the run ended all the same
C14_Witness ==
    /\ pc = "fatal"
    /\ err.kind = "refresh"
    /\ lastOutcome = "refresh_failed"
    /\ pos >= 1
    /\ attempt = 1
    /\ reqs = 1
    /\ COOKIES = "invalid"

\* C15 as claimed: fetch_details never raises its fatal error straight after a
\* successful credential refresh; a request with the refreshed credentials
\* comes first.
C15_Claimed_RefreshThenRetry == DetailsRetriesExceeded => lastOutcome # "401"

\* C15: in fetch_details every 401 response triggers one update_cookies() call
\* and no sleep. After a successful refresh on the first or second attempt the
\* loop goes to its next iteration, which issues another request with the
\* refreshed credentials; after a successful refresh on the third attempt the
\* loop is exhausted and fetch_details raises its fatal error without another
\* request.
C15_RefreshThenRetryOrRaise ==
    [][(pc = "details" /\ n401' = n401 + 1 /\ lastOutcome' = "401") =>
         /\ nrefresh' = nrefresh + 1
         /\ reqs' = reqs + 1
         /\ lastSleep' = 0
         /\ IF attempt < RETRIES
              THEN /\ pc' = "details"
                   /\ attempt' = attempt + 1
                   /\ err' = NoErr
              ELSE /\ pc' = "fatal"
                   /\ err' = [kind |-> "mod_id", arg |-> mod_list[pos].modId]
                   /\ reqs' = RETRIES]_vars

\* the third response was a 401, the refresh succeeded and produced valid
\* credentials, and fetch_details raised without using them
C15_Witness ==
    /\ DetailsRetriesExceeded
    /\ lastOutcome = "401"
    /\ COOKIES = "valid"
    /\ reqs = 3
    /\ n401 = 1
    /\ nrefresh = 1

\* C16: while the index is being built TMP_FILE does not exist; it is written
\* once, on the step that follows the successful fetch of the last page, with
\* the concatenation of all pages 1..pages_count; a kill or a fatal error
\* before that leaves no TMP_FILE, so the next run starts with
\* fetch_total_count and an empty index.
C16_TmpFileWrittenOnce ==
    [][/\ (tmp_file' # tmp_file /\ tmp_file'.exists) =>
             /\ ~tmp_file.exists
             /\ ~resumed
             /\ pc \in {"count", "page"}
             /\ pc' = "index_ready"
             /\ tmp_file' = File(mod_list')
             /\ mod_list' = Flatten(pagesGot')
             /\ Len(pagesGot') = Max({pages_count', 0})
             /\ pageCalls' = [j \in 1..pages_count' |-> j]
       /\ pc' \in {"count", "page"} => ~tmp_file'.exists
       /\ (pc \in {"count", "page"} /\ pc' \in {"fatal", "killed"}) => ~tmp_file'.exists
       /\ (pc \in {"fatal", "killed"} /\ ~tmp_file.exists /\ runs' = runs + 1) =>
             /\ pc' = "count"
             /\ ~resumed'
             /\ countCalls' = 1
             /\ mod_list' = <<>>]_vars

\* page 1 was fetched, page 2 failed for good, and there is no TMP_FILE
C16_Witness ==
    /\ pc = "fatal"
    /\ err = [kind |-> "page", arg |-> 2]
    /\ mod_list # <<>>
    /\ Len(pagesGot) = 1
    /\ ~tmp_file.exists

\* the tags of the mod_tags rows that reference a rowid, in insertion order
TagsOfRow(rid) ==
    LET sel == SelectSeq(mod_tags, LAMBDA t : t.modRowId = rid)
    IN  [j \in 1..Len(sel) |-> sel[j].tag]

IsPrefix(a, b) == Len(a) <= Len(b) /\ \A j \in 1..Len(a) : a[j] = b[j]

\* positions of the StoredVersion rows whose tag rows are not one per tagId
Incomplete ==
    {j \in 1..Len(mods_raw) : TagsOfRow(mods_raw[j].rowid) # ModTagIds(mods_raw[j].modId)}

\* the row whose tag rows executemany is still inserting
InFlight == IF pc = "tags" THEN {Len(mods_raw)} ELSE {}

\* runs that have ended
TerminatedRuns == IF pc \in Stopped THEN runs ELSE runs - 1

\* C17 as claimed: a StoredVersion left inconsistent by a termination inside add
\* has no tag rows at all.
C17_Claimed_OnlyTaglessRows ==
    \A j \in Incomplete \ InFlight : TagsOfRow(mods_raw[j].rowid) = <<>>

\* C17: Database.add inserts the StoredVersion row and then its TagAssociation
\* rows one by one, each INSERT durable on its own. Every TagAssociation row
\* references the rowid of an existing StoredVersion; the tag rows of a
\* StoredVersion are always a prefix of its tagIds; after a completed add they
\* are exactly one per tagId, so the rows that are not complete are the one
\* add is still working on and at most one per run that ended, left by a
\* termination inside add with a proper prefix, possibly empty, of its tags.
C17_TagRowsPrefix ==
    /\ \A k \in 1..Len(mod_tags) :
         \E j \in 1..Len(mods_raw) : mods_raw[j].rowid = mod_tags[k].modRowId
    /\ \A j \in 1..Len(mods_raw) :
         IsPrefix(TagsOfRow(mods_raw[j].rowid), ModTagIds(mods_raw[j].modId))
    /\ \A i, j \in 1..Len(mods_raw) : mods_raw[i].rowid = mods_raw[j].rowid => i = j
    /\ Cardinality(Incomplete \ InFlight) <= TerminatedRuns
    /\ pc = "tags" =>
         /\ mods_raw[Len(mods_raw)].rowid = row_id
         /\ Len(TagsOfRow(row_id)) = tag_k
         /\ tag_k < Len(details.modTagIds)
    /\ (pc = "iter" /\ TerminatedRuns = 0) => Incomplete = {}

\* a kill between two INSERTs of executemany: a stored version with some but
\* not all of its tag rows
C17_Witness ==
    /\ pc = "killed"
    /\ \E j \in 1..Len(mods_raw) :
         /\ TagsOfRow(mods_raw[j].rowid) # <<>>
         /\ Len(TagsOfRow(mods_raw[j].rowid)) < Len(ModTagIds(mods_raw[j].modId))

\* C18: an attempt of fetch_total_count that fails with a null totalCount or
\* with any other non-401 failure sleeps exactly 5 * i seconds, i being the
\* attempt's index, and writes the dump indexed i in the null case only; a
\* non-401 failure in fetch_page or fetch_details sleeps exactly 5 seconds and
\* writes no dump; a 401 never sleeps.
C18_Backoff ==
    [][(InFetch /\ reqs' = reqs + 1) =>
         /\ lastOutcome' \in {"401", "refresh_failed", "null", "err"}
         /\ lastOutcome' \in {"401", "refresh_failed"} <=> n401' = n401 + 1
         /\ lastOutcome' \in {"401", "refresh_failed"} => (lastSleep' = 0 /\ lastDump' = 0)
         /\ (pc = "count" /\ lastOutcome' \in {"null", "err"}) =>
               /\ lastSleep' = 5 * attempt
               /\ lastDump' = IF lastOutcome' = "null" THEN attempt ELSE 0
               /\ reqs' = attempt
         /\ pc \in {"page", "details"} =>
               /\ lastOutcome' # "null"
               /\ lastDump' = 0
               /\ lastOutcome' = "err" => lastSleep' = 5]_vars

\* fetch_total_count: a 401 on attempt 1 (no sleep), then failures, then a null
\* totalCount on attempt 3 that slept 15 seconds and left dump 3
C18_Witness ==
    /\ pc = "count"
    /\ attempt = 4
    /\ n401 = 1
    /\ lastOutcome = "null"
    /\ lastSleep = 15
    /\ lastDump = 3

\* the steps of the running process (everything but the environment's steps)
RunStep ==
    \/ FetchTotalCountOk \/ FetchTotalCount401 \/ FetchTotalCount401RefreshFails
    \/ FetchTotalCountNull \/ FetchTotalCountErr
    \/ FetchPageOk \/ FetchPage401 \/ FetchPage401RefreshFails \/ FetchPageErr
    \/ BeginIteration \/ CheckEntry \/ Rename
    \/ FetchDetailsOk \/ FetchDetails401 \/ FetchDetails401RefreshFails \/ FetchDetailsErr
    \/ AddRow \/ AddTag

\* this step is one of them
RunStepTaken ==
    /\ pc \notin Stopped
    /\ pc' # "killed"
    /\ <<pc, mainVars, opVars, diskVars>>' # <<pc, mainVars, opVars, diskVars>>

\* this step issues one HTTP request: a failed attempt, or the attempt that returns
IsRequest == InFetch /\ (reqs' = reqs + 1 \/ OpReturns)

\* the three parts of a run: counting (1), fetching pages (2), the entry loop (3)
Phase(p) ==
    IF p = "count" THEN 1
    ELSE IF p = "page" THEN 2
    ELSE IF p \in {"index_ready", "iter", "details", "add", "tags"} THEN 3
    ELSE 0

\* the requests the current part of the run may still issue, out of 29 for the
\* count, 3 per page and 3 per index entry
RequestsLeft ==
    CASE pc = "count" -> 29 - reqs
      [] pc = "page" -> 3 * (pages_count - page_i) + (3 - reqs)
      [] pc = "index_ready" -> 3 * Len(mod_list)
      [] pc = "iter" -> 3 * (Len(mod_list) - pos + 1)
      [] pc = "details" -> 3 * (Len(mod_list) - pos) + (3 - reqs)
      [] pc \in {"add", "tags"} -> 3 * (Len(mod_list) - pos)
      [] OTHER -> 0

MaxTags == Max({Len(ModTagIds(id)) : id \in Ids})
MaxPages == Max({PagesCount(t) : t \in TotalCounts})

\* the most steps one index entry can take: should_update, the attempts of
\* fetch_details, the INSERT of the row, the INSERTs of its tags
EntrySteps == 1 + RETRIES + 1 + MaxTags

\* a measure of the steps the run can still take
Rank ==
    LET entries == EntrySteps * MaxIndexLen + 2
        pages == entries + RETRIES * MaxPages + 1
    IN  CASE pc = "count" -> pages + (CountAttempts - attempt) + 1
          [] pc = "page" -> entries + RETRIES * (pages_count - page_i)
                              + (RETRIES - attempt) + 1
          [] pc = "index_ready" -> EntrySteps * Len(mod_list) + 2
          [] pc = "iter" -> EntrySteps * (Len(mod_list) - pos + 1) + 1
          [] pc = "details" -> EntrySteps * (Len(mod_list) - pos) + MaxTags + 2
                                 + (RETRIES - attempt) + 1
          [] pc = "add" -> EntrySteps * (Len(mod_list) - pos) + MaxTags + 2
          [] pc = "tags" -> EntrySteps * (Len(mod_list) - pos) + 1
                              + (Len(details.modTagIds) - tag_k)
          [] OTHER -> 0

\* C19: every run of main() terminates, by the rename or by a fatal error, as
\* long as its steps return: each step of the process lowers a non-negative
\* measure and a running process always has a step to take. A call of
\* fetch_page or fetch_details issues at most 3 requests and a call of
\* fetch_total_count at most 29; every request uses up one of the 29 requests
\* allowed to the count, the 3 * pages_count allowed to the pages or the
\* 3 * Len(mod_list) allowed to the entries, so a run issues at most
\* 29 + 3 * pages_count + 3 * Len(mod_list) requests.
C19_RunTerminates ==
    [][/\ Rank' >= 0
       /\ RunStepTaken => Rank' < Rank
       /\ (pc \notin Stopped /\ pc' = "killed") => ENABLED RunStep
       /\ RequestsLeft' >= 0
       /\ IsRequest =>
             /\ RequestsLeft >= 1
             /\ Phase(pc') = Phase(pc) => RequestsLeft' <= RequestsLeft - 1
             /\ reqs + 1 <= (IF pc = "count" THEN 29 ELSE 3)
       /\ (Phase(pc') = Phase(pc) /\ runs' = runs) => RequestsLeft' <= RequestsLeft
       /\ (Phase(pc') = 1 /\ Phase(pc) # 1) => RequestsLeft' = 29
       /\ (Phase(pc') = 2 /\ Phase(pc) # 2) => RequestsLeft' = 3 * pages_count'
       /\ (Phase(pc') = 3 /\ Phase(pc) # 3) => RequestsLeft' = 3 * Len(mod_list')]_vars

\* a run ended by the fatal error of fetch_details on the last entry of a full
\* index, after the three requests of that call, the entry before it processed
C19_Witness ==
    /\ DetailsRetriesExceeded
    /\ Len(mod_list) = MaxIndexLen
    /\ pos = Len(mod_list)
    /\ reqs = 3
    /\ n401 = 2
    /\ <<mod_list[1].modId, mod_list[1].lastUpdate>> \in processed
    /\ ~resumed

\* C20: when a run reaches the rename, every modId of its index has at least
\* one row in mods_raw, appended in this run or present before it.
C20_IndexMirrored ==
    pc = "done" =>
        \A k \in 1..Len(mod_list) :
            \E j \in 1..Len(mods_raw) : mods_raw[j].modId = mod_list[k].modId

\* a completed run whose index names two mods: the version of one was appended
\* in this run, the other was skipped because an earlier run had stored it
C20_Witness ==
    /\ pc = "done"
    /\ runs = 2
    /\ Len(mod_list) = 2
    /\ mod_list[1].modId # mod_list[2].modId
    /\ ~lastCheck.result
    /\ <<mod_list[1].modId, mod_list[1].lastUpdate>> \in processed
    /\ <<mod_list[2].modId, mod_list[2].lastUpdate>> \notin processed

====
